---- MODULE Spec2Model ----
(***************************************************************************)
(* brainsmash.utils.mem.create: conversion of a delimited text distance    *)
(* matrix into two memory-mapped arrays (sorted distances and the sort     *)
(* permutation of every retained row), with an optional vertex mask.       *)
(*                                                                         *)
(* One call of create is modelled, statement by statement.  The inputs     *)
(* are the distance file, the output directory and the mask file.  The     *)
(* text of a line of the distance file is represented by the list of the   *)
(* substrings that lie between its delimiters (default delimiter ' '), an  *)
(* empty substring being written "": <<"0", "">> is the text "0 " and      *)
(* <<"">> is the empty line.  The content of a line is drawn when the      *)
(* file iterator yields it; the number of lines and whether the last one   *)
(* ends with a newline are fixed from the start, because count_lines       *)
(* reads them before the streaming pass does.                              *)
(***************************************************************************)
EXTENDS Integers, Sequences, FiniteSets, TLC

\* Bounds of the model.
MaxLines == 2
MaxFields == 2
MaxMask == 2

\* The substrings a line is made of: a numeral, the string "nan" (which
\* float parsing accepts and which sorts after every number) and the empty
\* substring (what lies between two adjacent delimiters, or after a
\* trailing one).
Tokens == {"0", "nan", ""}

\* The element values a loaded mask image can hold.
MaskValues == {0, 1, 2}

VARIABLES
    dist_file,   \* [exists, nlines, terminated]: the source text file
    output_dir,  \* TRUE iff the output directory exists
    maskfile,    \* [given, vec]: maskfile is not None, and the vector it loads
    pc,          \* the statement of create that runs next
    err,         \* the exception create raised, "" while none
    scanned,     \* count_lines has opened and read dist_file
    fp,          \* the handle of `with open(dist_file)`: unopened, open, closed
    lines,       \* the lines the iterator over fp has yielded so far
    il,          \* number of the line the iterator yields next (0-based)
    nlines, mask, mask_loaded, nv, idx,
    mask_txt,    \* [exists, rows]: output_dir/mask.txt
    fpd,         \* [exists, data, flushed]: output_dir/distmat.npy
    fpi,         \* [exists, data, flushed]: output_dir/index.npy
    ifp,         \* the output-row counter
    written      \* written[r+1] is the number of the line written to row r

inputs == <<dist_file, output_dir, maskfile>>
locals == <<nlines, mask, mask_loaded, nv, idx>>
stream == <<fp, lines, il, ifp, written>>
outputs == <<mask_txt, fpd, fpi>>
vars == <<dist_file, output_dir, maskfile, pc, err, scanned, fp, lines, il,
          nlines, mask, mask_loaded, nv, idx, mask_txt, fpd, fpi, ifp, written>>

----------------------------------------------------------------------------
\* Sequences of length 0..n over S.
SeqsUpTo(S, n) == UNION {[1..k -> S] : k \in 0..n}

\* The texts a line of the file can have: 1..MaxFields substrings.
Lines == SeqsUpTo(Tokens, MaxFields) \ {<<>>}

\* Element i (0-based, as in the code) of a sequence.
At(s, i) == s[i + 1]

\* The set of values of a sequence.
Range(s) == {s[k] : k \in DOMAIN s}

\* np.arange(n)
arange(n) == [k \in 1..n |-> k - 1]

\* Number of TRUE entries of a boolean sequence: b.sum()
RECURSIVE CountTrue(_)
CountTrue(b) ==
    IF b = <<>> THEN 0
    ELSE (IF Head(b) THEN 1 ELSE 0) + CountTrue(Tail(b))

\* ~mask
Invert(b) == [k \in DOMAIN b |-> ~b[k]]

\* a[b] for a boolean index b of the same length: the elements of a where b
\* is true, in order.
RECURSIVE BoolSelect(_, _)
BoolSelect(a, b) ==
    IF a = <<>> THEN <<>>
    ELSE (IF Head(b) THEN <<Head(a)>> ELSE <<>>) \o BoolSelect(Tail(a), Tail(b))

\* numpy raises IndexError when a boolean index and the indexed array differ
\* in length.
BoolIndexFits(a, b) == Len(a) = Len(b)

\* files.count_lines: the number of newline-terminated lines of the file.
count_lines(f) == IF f.terminated THEN f.nlines ELSE f.nlines - 1

\* checks.check_image_file(maskfile).astype(bool): nonzero is True.
astype_bool(v) == [k \in DOMAIN v |-> v[k] # 0]

\* mask.astype(int), the rows np.savetxt writes with fmt "%i".
astype_int(b) == [k \in DOMAIN b |-> IF b[k] THEN 1 ELSE 0]

\* l.rstrip(): trailing whitespace goes, so with the delimiter ' ' every
\* trailing empty substring goes; <<>> is the empty string.
RECURSIVE rstrip(_)
rstrip(l) ==
    IF l = <<>> THEN <<>>
    ELSE IF l[Len(l)] = "" THEN rstrip(SubSeq(l, 1, Len(l) - 1))
    ELSE l

\* Python's float() accepts the substring.
IsNumeric(tok) == tok \in {"0", "16777217", "nan"}

\* The decimal value of a numeral float() accepts.
DecimalValue(tok) ==
    CASE tok = "0" -> 0
      [] tok = "16777217" -> 16777217

RECURSIVE Pow2(_)
Pow2(e) == IF e = 0 THEN 1 ELSE 2 * Pow2(e - 1)

\* The exponent e with 2^e <= x < 2^(e+1), for x >= 1.
RECURSIVE Log2(_)
Log2(x) == IF x < 2 THEN 0 ELSE 1 + Log2(x \div 2)

\* The value of a non-negative integer x as np.float32: 24 significant
\* bits, round to nearest, ties to even.
float32(x) ==
    IF x < Pow2(24) THEN x
    ELSE LET q == Pow2(Log2(x) - 23)
             r == x % q
             lo == x - r
         IN IF 2 * r < q THEN lo
            ELSE IF 2 * r > q THEN lo + q
            ELSE IF (lo \div q) % 2 = 0 THEN lo ELSE lo + q

\* np.array(line.split(delimiter), dtype=np.float32) raises ValueError when
\* a substring is no number.
ParseFits(fields) == \A k \in DOMAIN fields : IsNumeric(fields[k])

\* A float32 element: a number, or NaN.
Num(x) == [nan |-> FALSE, v |-> x]
NaN == [nan |-> TRUE, v |-> 0]

\* The float32 element a substring parses to.
ParseToken(tok) == IF tok = "nan" THEN NaN ELSE Num(float32(DecimalValue(tok)))

\* np.array(line.split(delimiter), dtype=np.float32)
ParseRow(fields) == [k \in DOMAIN fields |-> ParseToken(fields[k])]

\* a[ix] for an integer index array ix raises IndexError when an index is
\* out of bounds.
TakeFits(a, ix) == \A k \in DOMAIN ix : ix[k] < Len(a)

\* a[ix] for an integer index array ix.
Take(a, ix) == [k \in DOMAIN ix |-> At(a, ix[k])]

\* The permutations of 0..n-1, as index arrays.
Perms(n) == {p \in [1..n -> 0..(n - 1)] : \A a, b \in 1..n : p[a] = p[b] => a = b}

\* a <= b on float32 elements: false as soon as one of them is NaN.
Leq(a, b) == ~a.nan /\ ~b.nan /\ a.v <= b.v

\* The order numpy sorts in: numbers ascending, NaN after every number.
SortsUpTo(a, b) == b.nan \/ Leq(a, b)

InSortOrder(s) == \A k \in 1..(Len(s) - 1) : SortsUpTo(s[k], s[k + 1])

\* np.argsort(d): an index array that sorts d.  The default kind is not
\* stable, so the order of equal elements is the build's choice.
argsort(d) == {p \in Perms(Len(d)) : InSortOrder(Take(d, p))}

\* A zero-filled int32 array of shape (n, n), as open_memmap creates it
\* with w+.
Zeros(n) == [r \in 1..n |-> [c \in 1..n |-> 0]]

\* A zero-filled float32 array of shape (n, n).
FloatZeros(n) == [r \in 1..n |-> [c \in 1..n |-> Num(0)]]

\* a[r, :] = row
SetRow(a, r, row) == [a EXCEPT ![r + 1] = row]

NoFile == [exists |-> FALSE, rows |-> <<>>]
NoArray == [exists |-> FALSE, data |-> <<>>, flushed |-> FALSE]

----------------------------------------------------------------------------
Init ==
    /\ dist_file \in {[exists |-> FALSE, nlines |-> 0, terminated |-> TRUE]}
          \cup {f \in [exists : {TRUE}, nlines : 0..MaxLines, terminated : BOOLEAN] :
                  f.nlines = 0 => f.terminated}
    /\ output_dir \in BOOLEAN
    /\ maskfile \in {[given |-> FALSE, vec |-> <<>>]}
          \cup {[given |-> TRUE, vec |-> v] : v \in SeqsUpTo(MaskValues, MaxMask)}
    /\ pc = "count_lines"
    /\ err = ""
    /\ scanned = FALSE
    /\ fp = "unopened"
    /\ lines = <<>>
    /\ il = 0
    /\ nlines = 0
    /\ mask = <<>>
    /\ mask_loaded = FALSE
    /\ nv = 0
    /\ idx = <<>>
    /\ mask_txt = NoFile
    /\ fpd = NoArray
    /\ fpi = NoArray
    /\ ifp = 0
    /\ written = <<>>

\* An exception leaves create; the with block closes fp on the way out.
Raise(kind) ==
    /\ pc' = "failed"
    /\ err' = kind
    /\ fp' = IF fp = "open" THEN "closed" ELSE fp

\* nlines = files.count_lines(dist_file)
CountLines ==
    /\ pc = "count_lines"
    /\ IF dist_file.exists
       THEN /\ scanned' = TRUE
            /\ nlines' = count_lines(dist_file)
            /\ pc' = "check_dir"
            /\ UNCHANGED <<err, fp>>
       ELSE /\ Raise("IOError: dist_file")
            /\ UNCHANGED <<scanned, nlines>>
    /\ UNCHANGED <<inputs, lines, il, ifp, written, mask, mask_loaded, nv, idx, outputs>>

\* if not path.exists(output_dir): raise IOError
CheckOutputDir ==
    /\ pc = "check_dir"
    /\ IF output_dir
       THEN /\ pc' = IF maskfile.given THEN "load_mask" ELSE "no_mask"
            /\ UNCHANGED <<err, fp>>
       ELSE Raise("IOError: output_dir")
    /\ UNCHANGED <<inputs, scanned, lines, il, ifp, written, locals, outputs>>

\* mask = checks.check_image_file(maskfile).astype(bool)
LoadMask ==
    /\ pc = "load_mask"
    /\ mask' = astype_bool(maskfile.vec)
    /\ mask_loaded' = TRUE
    /\ pc' = "check_size"
    /\ UNCHANGED <<inputs, err, scanned, stream, nlines, nv, idx, outputs>>

\* The size check placed after np.savetxt instead of before it.
CheckMaskSize_AfterSave ==
    /\ pc = "check_size"
    /\ mask_txt' = [exists |-> TRUE, rows |-> astype_int(mask)]
    /\ IF Len(mask) # nlines
       THEN Raise("ValueError: size")
       ELSE /\ pc' = "save_mask"
            /\ UNCHANGED <<err, fp>>
    /\ UNCHANGED <<inputs, scanned, lines, il, ifp, written, locals, fpd, fpi>>

\* if mask.size != nlines: raise ValueError
CheckMaskSize ==
    /\ pc = "check_size"
    /\ IF Len(mask) # nlines
       THEN Raise("ValueError: size")
       ELSE /\ pc' = "save_mask"
            /\ UNCHANGED <<err, fp>>
    /\ UNCHANGED <<inputs, scanned, lines, il, ifp, written, locals, outputs>>

\* np.savetxt(fname=mask_fileout, X=mask.astype(int), fmt="%i", ...)
SaveMask ==
    /\ pc = "save_mask"
    /\ mask_txt' = [exists |-> TRUE, rows |-> astype_int(mask)]
    /\ pc' = "build_idx"
    /\ UNCHANGED <<inputs, err, scanned, stream, locals, fpd, fpi>>

\* nv = int((~mask).sum()); idx = np.arange(nv)[~mask]
BuildIndexMasked ==
    /\ pc = "build_idx"
    /\ nv' = CountTrue(Invert(mask))
    /\ IF BoolIndexFits(arange(nv'), Invert(mask))
       THEN /\ idx' = BoolSelect(arange(nv'), Invert(mask))
            /\ pc' = "open"
            /\ UNCHANGED <<err, fp>>
       ELSE /\ Raise("IndexError: boolean index")
            /\ UNCHANGED idx
    /\ UNCHANGED <<inputs, scanned, lines, il, ifp, written, nlines, mask,
                   mask_loaded, outputs>>

\* nv = nlines; idx = np.arange(nv)
BuildIndexUnmasked ==
    /\ pc = "no_mask"
    /\ nv' = nlines
    /\ idx' = arange(nlines)
    /\ pc' = "open"
    /\ UNCHANGED <<inputs, err, scanned, stream, nlines, mask, mask_loaded, outputs>>

\* with open(dist_file, 'r') as fp
OpenSource ==
    /\ pc = "open"
    /\ fp' = "open"
    /\ pc' = "alloc"
    /\ UNCHANGED <<inputs, err, scanned, lines, il, ifp, written, locals, outputs>>

\* fpd = open_memmap(npydfile, 'w+', float32, (nv, nv)); fpi likewise with
\* int32; ifp = 0
AllocArrays ==
    /\ pc = "alloc"
    /\ fpd' = [exists |-> TRUE, data |-> FloatZeros(nv), flushed |-> FALSE]
    /\ fpi' = [exists |-> TRUE, data |-> Zeros(nv), flushed |-> FALSE]
    /\ ifp' = 0
    /\ pc' = "loop"
    /\ UNCHANGED <<inputs, err, scanned, fp, lines, il, written, locals, mask_txt>>

\* The iterator yields line il with text l.
Yields(l) ==
    /\ pc = "loop"
    /\ il < dist_file.nlines
    /\ l \in Lines
    /\ lines' = Append(lines, l)

\* if il not in idx: continue
SkipLine ==
    \E l \in Lines :
        /\ Yields(l)
        /\ il \notin Range(idx)
        /\ il' = il + 1
        /\ UNCHANGED <<inputs, pc, err, scanned, fp, ifp, written, locals, outputs>>

\* line = l.rstrip(); if line: ... (an empty line does nothing)
BlankLine ==
    \E l \in Lines :
        /\ Yields(l)
        /\ il \in Range(idx)
        /\ rstrip(l) = <<>>
        /\ il' = il + 1
        /\ UNCHANGED <<inputs, pc, err, scanned, fp, ifp, written, locals, outputs>>

\* np.array(line.split(delimiter), dtype=np.float32) raises ValueError
ParseError ==
    \E l \in Lines :
        /\ Yields(l)
        /\ il \in Range(idx)
        /\ rstrip(l) # <<>>
        /\ ~ParseFits(rstrip(l))
        /\ Raise("ValueError: float")
        /\ UNCHANGED <<inputs, scanned, il, ifp, written, locals, outputs>>

\* np.array(...)[idx] raises IndexError
ProjectError ==
    \E l \in Lines :
        /\ Yields(l)
        /\ il \in Range(idx)
        /\ rstrip(l) # <<>>
        /\ ParseFits(rstrip(l))
        /\ ~TakeFits(ParseRow(rstrip(l)), idx)
        /\ Raise("IndexError: row")
        /\ UNCHANGED <<inputs, scanned, il, ifp, written, locals, outputs>>

\* d = np.array(...)[idx]; sort_idx = np.argsort(d); fpd[ifp, :] = d[sort_idx];
\* fpi[ifp, :] = sort_idx; ifp += 1
WriteRow ==
    \E l \in Lines :
        /\ Yields(l)
        /\ il \in Range(idx)
        /\ rstrip(l) # <<>>
        /\ ParseFits(rstrip(l))
        /\ TakeFits(ParseRow(rstrip(l)), idx)
        /\ LET d == Take(ParseRow(rstrip(l)), idx)
           IN \E sort_idx \in argsort(d) :
                /\ fpd' = [fpd EXCEPT !.data = SetRow(@, ifp, Take(d, sort_idx))]
                /\ fpi' = [fpi EXCEPT !.data = SetRow(@, ifp, sort_idx)]
        /\ written' = Append(written, il)
        /\ ifp' = ifp + 1
        /\ il' = il + 1
        /\ UNCHANGED <<inputs, pc, err, scanned, fp, locals, mask_txt>>

\* Only the distance array is released.
Flush_DistmatOnly ==
    /\ pc = "loop"
    /\ il = dist_file.nlines
    /\ fpd' = [fpd EXCEPT !.flushed = TRUE]
    /\ pc' = "return"
    /\ UNCHANGED <<inputs, err, scanned, stream, locals, mask_txt, fpi>>

\* del fpd; del fpi (after the last line of the file)
Flush ==
    /\ pc = "loop"
    /\ il = dist_file.nlines
    /\ fpd' = [fpd EXCEPT !.flushed = TRUE]
    /\ fpi' = [fpi EXCEPT !.flushed = TRUE]
    /\ pc' = "return"
    /\ UNCHANGED <<inputs, err, scanned, stream, locals, mask_txt>>

\* the with block ends; return {'distmat': npydfile, 'index': npyifile}
Return ==
    /\ pc = "return"
    /\ fp' = "closed"
    /\ pc' = "done"
    /\ UNCHANGED <<inputs, err, scanned, lines, il, ifp, written, locals, outputs>>

Next ==
    \/ CountLines
    \/ CheckOutputDir
    \/ LoadMask
    \/ CheckMaskSize
    \/ SaveMask
    \/ BuildIndexMasked
    \/ BuildIndexUnmasked
    \/ OpenSource
    \/ AllocArrays
    \/ SkipLine
    \/ BlankLine
    \/ ParseError
    \/ ProjectError
    \/ WriteRow
    \/ Flush
    \/ Return

Spec == Init /\ [][Next]_vars

----------------------------------------------------------------------------
\* create has returned or raised.
Finished == pc \in {"done", "failed"}

\* No file has been written into the output directory.
NothingWritten == ~mask_txt.exists /\ ~fpd.exists /\ ~fpi.exists

\* C1: when the output directory does not exist, create fails with the
\* missing-directory error before any other work: the source distance file
\* is not opened or read and no file is written, neither before the error
\* is raised nor at the moment it is.
C1_DirErrorBeforeSourceOpened ==
    ~output_dir =>
        /\ ~scanned
        /\ fp = "unopened"
        /\ NothingWritten
        /\ Finished => err = "IOError: output_dir"

\* C2: whenever the mask's element count differs from the N rows counted
\* in the source (in a call that gets as far as the mask, i.e. with a
\* readable source and an existing output directory), create fails with the
\* size-mismatch error, and when that error is raised none of mask.txt,
\* distmat.npy and index.npy exists.
C2_SizeMismatchBeforeOutputs ==
    /\ (/\ Finished
        /\ dist_file.exists
        /\ output_dir
        /\ maskfile.given
        /\ Len(maskfile.vec) # count_lines(dist_file)) => err = "ValueError: size"
    /\ err = "ValueError: size" =>
        /\ Len(mask) # nlines
        /\ NothingWritten
        /\ fp = "unopened"

\* C2: the size-mismatch error has been raised for a one-element mask
\* against a two-row source.
C2_Witness ==
    /\ pc = "failed"
    /\ err = "ValueError: size"
    /\ Len(mask) = 1
    /\ nlines = 2

\* The positions 0..Len(b)-1 where the boolean sequence b is false, ascending.
FalsePositions(b) == BoolSelect(arange(Len(b)), Invert(b))

\* Lines 67-71 have run.
IndexBuilt ==
    \/ pc \in {"open", "alloc", "loop", "return", "done"}
    \/ pc = "failed" /\ err \in {"IndexError: boolean index", "ValueError: float",
                                 "IndexError: row"}

\* C3: for every N and every mask of length N, create computes
\* Nv = N - (number of true mask entries) and the retained-vertex index is
\* the ascending sequence of the positions in 0..N-1 where the mask is
\* false, of length Nv; with no mask Nv = N and the index is 0..N-1.
C3_RetainedIndex ==
    IndexBuilt =>
        IF maskfile.given
        THEN /\ nv = nlines - CountTrue(mask)
             /\ idx = FalsePositions(mask)
             /\ Len(idx) = nv
        ELSE /\ nv = nlines
             /\ idx = arange(nlines)

----------------------------------------------------------------------------
\* The index array row is a permutation of {0,...,n-1}.
IsPermutation(row, n) ==
    /\ Len(row) = n
    /\ \A v \in 0..(n - 1) : Cardinality({k \in 1..n : row[k] = v}) = 1

\* The text of line number k (0-based) of the source, once it has been read.
LineNo(k) == lines[k + 1]

\* C4: whenever create returns successfully, every one of the Nv rows of
\* the index array is a permutation of {0,...,Nv-1}, also for a source in
\* which some retained line was not written.
C4_IndexRowsArePermutations ==
    pc = "done" => \A r \in 1..nv : IsPermutation(fpi.data[r], nv)

\* C5: whenever create returns successfully, for every output row i and
\* sorted position j, distmat[i][j] is the (32-bit float) value of the i-th
\* retained source line at the retained column index[i][j].
C5_RoundTrip ==
    pc = "done" =>
        \A i \in 0..(nv - 1) : \A j \in 0..(nv - 1) :
            LET src == rstrip(LineNo(At(idx, i)))
                col == At(idx, At(At(fpi.data, i), j))
            IN /\ ParseFits(src)
               /\ col < Len(src)
               /\ At(At(fpd.data, i), j) = At(ParseRow(src), col)

\* value[j] <= value[j+1] for every valid j.
NonDecreasing(s) == \A k \in 1..(Len(s) - 1) : Leq(s[k], s[k + 1])

\* C6: whenever create returns successfully, every row of the distance
\* array is non-decreasing: value[j] <= value[j+1] for every valid j.
C6_RowsNonDecreasing ==
    pc = "done" => \A r \in 1..nv : NonDecreasing(fpd.data[r])

\* A retained line is well formed: N fields, every one a number.
WellFormed(l) == Len(rstrip(l)) = nlines /\ ParseFits(rstrip(l))

\* C7: a retained line that is malformed (a field count other than N, or a
\* token that is no number) is fatal: create never returns successfully for
\* a source that holds one.
C7_MalformedLineIsFatal ==
    pc = "done" => \A k \in Range(idx) : WellFormed(LineNo(k))

\* Some output row holds a line other than the retained vertex of its number.
RowsShifted == \E r \in 1..Len(written) : written[r] # At(idx, r - 1)

\* C8: a blank line at a retained position never passes silently: create
\* does not skip it and then return successfully with output rows shifted
\* away from their vertex.
C8_BlankLineNotSilent ==
    pc = "done" =>
        ~(/\ \E b \in Range(idx) : rstrip(LineNo(b)) = <<>>
          /\ RowsShifted)

\* The number of retained lines among the lines 0..n-1.
RetainedBefore(n) == Cardinality({k \in Range(idx) : k < n})

\* C9: a line whose number is not in the retained-vertex index is never
\* written, every retained line is written to the row whose number is the
\* count of retained lines processed before it, and the output-row counter
\* always equals the number of retained lines processed so far.
C9_CompactedRows ==
    pc \in {"loop", "return", "done"} =>
        /\ \A r \in 1..Len(written) : written[r] \in Range(idx)
        /\ \A r \in 1..Len(written) : r - 1 = RetainedBefore(written[r])
        /\ ifp = RetainedBefore(il)

\* C10 as stated: once both arrays are allocated, both are flushed before
\* control leaves create, on success and when streaming aborts with an error.
C10_FlushedOnEveryExit ==
    (Finished /\ fpd.exists /\ fpi.exists) => (fpd.flushed /\ fpi.flushed)

\* C10 amended: once both arrays are allocated, both are flushed before
\* create returns successfully, after the last line has been streamed; when
\* streaming aborts with an error the flush statements are not reached.
C10_FlushedOnSuccessOnly ==
    /\ pc \in {"return", "done"} =>
          fpd.exists /\ fpi.exists /\ fpd.flushed /\ fpi.flushed /\ il = dist_file.nlines
    /\ (pc = "failed" /\ fpd.exists) => (~fpd.flushed /\ ~fpi.flushed)

\* C10: create has returned after writing two rows, both arrays flushed.
C10_Witness ==
    /\ pc = "done"
    /\ fpd.flushed
    /\ fpi.flushed
    /\ ifp = 2

====
